---- MODULE Spec2Model ----
(***************************************************************************)
(* Edge authentication gateway (OAuth2 Authorization Code + PKCE) of the   *)
(* CLI repository: the viewer-request function ("Request Gate"), the       *)
(* callback function, and the browser, identity provider and token         *)
(* endpoint they talk to.                                                  *)
(*                                                                         *)
(* Strings.  A JavaScript string is modelled as a sequence of atoms.  An   *)
(* atom is a TLA+ string standing for a substring.  Every character the    *)
(* code splits or compares on (";" "=" "." "?" "&" "/" " " and the JSON    *)
(* punctuation) is an atom of its own, a percent escape ("%3D") is one     *)
(* atom, and a run of other characters ("dashboard", "spa-id-token") is    *)
(* one atom, cut where a literal the code compares against ends           *)
(* ("/signin-admin" is "/", "signin", "-admin").  The atom "%" is a        *)
(* percent sign that is NOT followed by two hexadecimal digits.  Two       *)
(* strings are equal iff their atom sequences are equal.                   *)
(***************************************************************************)
EXTENDS Integers, Sequences, FiniteSets, TLC

(***************************************************************************)
(* Bounds of the model.                                                    *)
(***************************************************************************)
\* the clock runs over 0..MaxNow (Unix seconds)
MaxNow == 1
\* the browser makes at most this many requests in one behaviour
MaxRequests == 4

(***************************************************************************)
(* String helpers (String.prototype.split / trim / startsWith / includes). *)
(***************************************************************************)
Includes(s, a) == \E i \in 1..Len(s) : s[i] = a

\* the first position of atom a in s from position i on, 0 when there is none
RECURSIVE IndexFrom(_, _, _)
IndexFrom(s, a, i) == IF i > Len(s) THEN 0 ELSE IF s[i] = a THEN i ELSE IndexFrom(s, a, i + 1)

IndexOf(s, a) == IndexFrom(s, a, 1)

StartsWith(s, p) == Len(p) <= Len(s) /\ SubSeq(s, 1, Len(p)) = p

RECURSIVE Split(_, _)
Split(s, d) == LET i == IndexOf(s, d)
               IN  IF i = 0 THEN <<s>>
                   ELSE <<SubSeq(s, 1, i - 1)>> \o Split(SubSeq(s, i + 1, Len(s)), d)

RECURSIVE TrimLeft(_)
TrimLeft(s) == IF s # <<>> /\ Head(s) = " " THEN TrimLeft(Tail(s)) ELSE s

RECURSIVE TrimRight(_)
TrimRight(s) == IF s # <<>> /\ s[Len(s)] = " " THEN TrimRight(SubSeq(s, 1, Len(s) - 1)) ELSE s

Trim(s) == TrimRight(TrimLeft(s))

RECURSIVE Join(_, _)
Join(parts, d) == IF parts = <<>> THEN <<>>
                  ELSE IF Len(parts) = 1 THEN parts[1]
                  ELSE parts[1] \o <<d>> \o Join(Tail(parts), d)

RECURSIVE Flatten(_)
Flatten(parts) == IF parts = <<>> THEN <<>> ELSE Head(parts) \o Flatten(Tail(parts))

(***************************************************************************)
(* encodeURIComponent / decodeURIComponent, atom by atom.                  *)
(***************************************************************************)
\* the reserved characters of the model, their percent escapes, and the escapes of
\* those (the text "%3D" is encoded as "%253D")
Escapes == << <<"=", "%3D", "%253D">>, <<";", "%3B", "%253B">>, <<" ", "%20", "%2520">>,
              <<"%", "%25", "%2525">>, <<"?", "%3F", "%253F">>, <<"&", "%26", "%2526">>,
              <<"/", "%2F", "%252F">>, <<"{", "%7B", "%257B">>, <<"}", "%7D", "%257D">>,
              <<"\"", "%22", "%2522">>, <<":", "%3A", "%253A">>, <<",", "%2C", "%252C">> >>

EncodeAtom(a) == IF \E i \in 1..Len(Escapes) : Escapes[i][1] = a
                 THEN Escapes[CHOOSE i \in 1..Len(Escapes) : Escapes[i][1] = a][2]
                 ELSE IF \E i \in 1..Len(Escapes) : Escapes[i][2] = a
                 THEN Escapes[CHOOSE i \in 1..Len(Escapes) : Escapes[i][2] = a][3]
                 ELSE IF a = "%zz" THEN "%25zz"
                 ELSE a

encodeURIComponentNone(s) == s
encodeURIComponent(s) == [i \in 1..Len(s) |-> EncodeAtom(s[i])]

\* atoms on which decodeURIComponent throws URIError: "%" not followed by two hex digits
MalformedEscapes == {"%", "%zz"}

DecodeAtom(a) == IF \E i \in 1..Len(Escapes) : Escapes[i][2] = a
                 THEN Escapes[CHOOSE i \in 1..Len(Escapes) : Escapes[i][2] = a][1]
                 ELSE IF \E i \in 1..Len(Escapes) : Escapes[i][3] = a
                 THEN Escapes[CHOOSE i \in 1..Len(Escapes) : Escapes[i][3] = a][2]
                 ELSE IF a = "%25zz" THEN "%zz"
                 ELSE a

DecodeThrows(s) == \E i \in 1..Len(s) : s[i] \in MalformedEscapes

decodeURIComponent(s) == [i \in 1..Len(s) |-> DecodeAtom(s[i])]

(***************************************************************************)
(* Configuration written by the deployment (config.js).                    *)
(***************************************************************************)
COOKIE_idToken == <<"spa-id-token">>
COOKIE_accessToken == <<"spa-access-token">>
COOKIE_refreshToken == <<"spa-refresh-token">>
COOKIE_pkce == <<"spa-pkce">>
USER_POOL_DOMAIN == <<"https", ":", "/", "/", "idp.example">>

(***************************************************************************)
(* parseCookies: the cookie header to a map name -> value.  The result is  *)
(* [threw, map]: threw when decodeURIComponent raised URIError, map the    *)
(* assignments cookies[name] = value in the order they were made.          *)
(***************************************************************************)
NoCookies == [threw |-> FALSE, map |-> <<>>]

\* cookies[name] = value on an association list (later entries win on lookup)
RECURSIVE ParseCookieParts(_, _)
ParseCookieParts(parts, acc) ==
    IF parts = <<>> THEN acc
    ELSE LET kv    == Split(Trim(Head(parts)), "=")
             name  == kv[1]
             value == IF Len(kv) >= 2 THEN kv[2] ELSE <<>>
         IN  IF name # <<>> /\ value # <<>>
             THEN IF DecodeThrows(value)
                  THEN [threw |-> TRUE, map |-> acc.map]
                  ELSE ParseCookieParts(Tail(parts),
                         [threw |-> FALSE,
                          map |-> Append(acc.map, <<name, decodeURIComponent(value)>>)])
             ELSE ParseCookieParts(Tail(parts), acc)

parseCookies(cookieHeader) ==
    IF cookieHeader # <<>> THEN ParseCookieParts(Split(cookieHeader, ";"), NoCookies)
    ELSE NoCookies

\* cookies[name]: [def, s], def = FALSE for undefined
Undefined == [def |-> FALSE, s |-> <<>>]
Str(s) == [def |-> TRUE, s |-> s]

RECURSIVE Lookup(_, _)
Lookup(map, name) ==
    IF map = <<>> THEN Undefined
    ELSE IF map[Len(map)][1] = name THEN Str(map[Len(map)][2])
    ELSE Lookup(SubSeq(map, 1, Len(map) - 1), name)

(***************************************************************************)
(* Session tokens.  The middle segment of a token is one atom; B64UrlJson  *)
(* is JSON.parse(Buffer.from(segment, 'base64url').toString()) on the      *)
(* sample segments of the model.  A payload is [ok, kind, hasExp, exp,     *)
(* hasUse, use]; ok = FALSE when JSON.parse throws.                        *)
(***************************************************************************)
BadJson == [ok |-> FALSE, kind |-> "error", hasExp |-> FALSE, exp |-> 0, hasUse |-> FALSE, use |-> ""]
JsonObj(hasExp, exp, hasUse, use) ==
    [ok |-> TRUE, kind |-> "object", hasExp |-> hasExp, exp |-> exp, hasUse |-> hasUse, use |-> use]

\* the largest exp carried by a sample token
MaxExp == MaxNow + 2

B64UrlJson(seg) ==
    IF Len(seg) # 1 THEN BadJson
    ELSE IF \E e \in 0..MaxExp : seg[1] = "pl-id-exp" \o ToString(e)
         THEN JsonObj(TRUE, CHOOSE e \in 0..MaxExp : seg[1] = "pl-id-exp" \o ToString(e), TRUE, "id")
    ELSE IF \E e \in 0..MaxExp : seg[1] = "pl-access-exp" \o ToString(e)
         THEN JsonObj(TRUE, CHOOSE e \in 0..MaxExp : seg[1] = "pl-access-exp" \o ToString(e), TRUE, "access")
    ELSE IF \E e \in 0..MaxExp : seg[1] = "pl-nouse-exp" \o ToString(e)
         THEN JsonObj(TRUE, CHOOSE e \in 0..MaxExp : seg[1] = "pl-nouse-exp" \o ToString(e), FALSE, "")
    ELSE IF seg[1] = "pl-id-noexp" THEN JsonObj(FALSE, 0, TRUE, "id")
    ELSE IF seg[1] = "pl-empty-object" THEN JsonObj(FALSE, 0, FALSE, "")
    ELSE IF seg[1] = "pl-null" THEN [BadJson EXCEPT !.ok = TRUE, !.kind = "null"]
    ELSE IF seg[1] = "pl-number" THEN [BadJson EXCEPT !.ok = TRUE, !.kind = "number"]
    ELSE BadJson

\* a three-segment token around a payload segment
Jwt(payloadAtom) == <<"hdr", ".", payloadAtom, ".", "sig">>

\* payload.exp < now (undefined < now is false)
ExpBeforeInMs(payload, now) == payload.hasExp /\ payload.exp < now * 1000
ExpBefore(payload, now) == payload.hasExp /\ payload.exp < now

validateJWT(token, now) ==
    LET parts == Split(token, ".")
    IN  IF Len(parts) # 3 THEN FALSE
        ELSE LET payload == B64UrlJson(parts[2])
             IN  IF ~payload.ok THEN FALSE                \* JSON.parse threw
                 ELSE IF payload.kind = "null" THEN FALSE \* payload.exp threw TypeError
                 ELSE IF ExpBefore(payload, now) THEN FALSE
                 ELSE IF ~(payload.hasUse /\ payload.use = "id") THEN FALSE
                 ELSE TRUE

(***************************************************************************)
(* Requests and handler results.  A handler returns the request (allow),   *)
(* a response, or throws.                                                  *)
(***************************************************************************)
Req(uri, querystring, hasCookie, cookie) ==
    [uri |-> uri, querystring |-> querystring, hasCookie |-> hasCookie, cookie |-> cookie]

NoReq == Req(<<>>, <<>>, FALSE, <<>>)

NoResult == [kind |-> "none", request |-> NoReq, status |-> "", location |-> <<>>,
             setCookie |-> <<>>, cacheControl |-> <<>>, error |-> <<>>, description |-> <<>>]

Allow(request) == [NoResult EXCEPT !.kind = "request", !.request = request]

Thrown == [NoResult EXCEPT !.kind = "throw"]

(***************************************************************************)
(* Random values and the clock.                                            *)
(***************************************************************************)
\* Date.now() at the clock value now (seconds)
DateNow(now) == now * 1000

\* crypto.createHash('sha256').update(codeVerifier).digest('base64url')
S256(codeVerifier) == "sha256-" \o codeVerifier

generatePKCEPlain(rnd) == [codeVerifier |-> rnd.codeVerifier, codeChallenge |-> rnd.codeVerifier]
generatePKCE(rnd) == [codeVerifier |-> rnd.codeVerifier, codeChallenge |-> S256(rnd.codeVerifier)]

(***************************************************************************)
(* JSON.stringify / JSON.parse on objects with string members.  A member   *)
(* list is a sequence of <<key, value>>; a parsed value is [ok, kind,      *)
(* members].  Sample strings hold no "," inside a JSON string.             *)
(***************************************************************************)
JsonEscapeAtom(a) == IF a = "\"" THEN "\\\"" ELSE IF a = "\\" THEN "\\\\" ELSE a
JsonUnescapeAtom(a) == IF a = "\\\"" THEN "\"" ELSE IF a = "\\\\" THEN "\\" ELSE a

JsonString(s) == <<"\"">> \o [i \in 1..Len(s) |-> JsonEscapeAtom(s[i])] \o <<"\"">>

JSONstringify(members) ==
    <<"{">> \o Join([i \in 1..Len(members) |->
                        <<"\"", members[i][1], "\"", ":">> \o JsonString(members[i][2])], ",")
            \o <<"}">>

JsonError == [ok |-> FALSE, kind |-> "error", members |-> <<>>]

IsJsonMember(m) ==
    /\ Len(m) >= 6
    /\ m[1] = "\"" /\ m[3] = "\"" /\ m[4] = ":" /\ m[5] = "\"" /\ m[Len(m)] = "\""
    /\ m[2] \notin {"\"", "\\"}
    /\ \A i \in 6..(Len(m) - 1) : m[i] \notin {"\"", "\\"}

JSONparse(s) ==
    IF s = <<"null">> THEN [ok |-> TRUE, kind |-> "null", members |-> <<>>]
    ELSE IF Len(s) = 1 /\ s[1] \in {ToString(n) : n \in 0..9}
         THEN [ok |-> TRUE, kind |-> "number", members |-> <<>>]
    ELSE IF s = <<"{", "}">> THEN [ok |-> TRUE, kind |-> "object", members |-> <<>>]
    ELSE IF Len(s) >= 2 /\ s[1] = "{" /\ s[Len(s)] = "}"
         THEN LET ms == Split(SubSeq(s, 2, Len(s) - 1), ",")
              IN  IF \A i \in 1..Len(ms) : IsJsonMember(ms[i])
                  THEN [ok |-> TRUE, kind |-> "object",
                        members |-> [i \in 1..Len(ms) |->
                           <<ms[i][2], [j \in 1..(Len(ms[i]) - 6) |-> JsonUnescapeAtom(ms[i][j + 5])]>>]]
                  ELSE JsonError
    ELSE JsonError

\* value.key of a parsed value (undefined on a number or a missing member)
JsonGet(v, key) == IF v.kind = "object" THEN Lookup(v.members, key) ELSE Undefined

(***************************************************************************)
(* Set-Cookie values.                                                      *)
(***************************************************************************)
CookieAttrs == <<";", " ", "Path", "=", "/", ";", " ", "Secure", ";", " ", "HttpOnly",
                 ";", " ", "SameSite", "=", "Lax", ";", " ", "Max-Age", "=">>

SetCookieValueSecureLast(name, value, maxAge) ==
    name \o <<"=">> \o value
      \o <<";", " ", "Path", "=", "/", ";", " ", "HttpOnly", ";", " ", "SameSite", "=", "Lax",
           ";", " ", "Max-Age", "=", ToString(maxAge), ";", " ", "Secure">>
SetCookieValue(name, value, maxAge) == name \o <<"=">> \o value \o CookieAttrs \o <<ToString(maxAge)>>

\* Max-Age of the transaction cookie
PkceMaxAge == 600

(***************************************************************************)
(* Request Gate (the viewer-request function).                             *)
(***************************************************************************)
\* new URLSearchParams({...}).toString(): form encoding, space as "+"
FormEncode(s) == [i \in 1..Len(s) |-> IF s[i] = " " THEN "+" ELSE EncodeAtom(s[i])]

UrlSearchParams(params) ==
    Join([i \in 1..Len(params) |-> <<params[i][1], "=">> \o FormEncode(params[i][2])], "&")

CLIENT_ID == <<"client-1">>
REDIRECT_URI == <<"https", ":", "/", "/", "cdn.example", "/", "callback">>

AuthorizeEndpoint == USER_POOL_DOMAIN \o <<"/", "oauth2", "/", "authorize", "?">>

GateAuthParams(rnd, now) ==
    << <<"response_type", <<"code">>>>,
       <<"client_id", CLIENT_ID>>,
       <<"redirect_uri", REDIRECT_URI>>,
       <<"scope", <<"openid", " ", "email", " ", "profile">>>>,
       <<"state", <<rnd.state>>>>,
       <<"nonce", <<rnd.nonce>>>>,
       <<"code_challenge", <<generatePKCE(rnd).codeChallenge>>>>,
       <<"code_challenge_method", <<"S256">>>>,
       <<"_t", <<ToString(DateNow(now))>>>> >>

PkceDataNonceAsState(rnd, originalUri) ==
    JSONstringify(<< <<"codeVerifier", <<rnd.codeVerifier>>>>,
                     <<"state", <<rnd.nonce>>>>,
                     <<"nonce", <<rnd.state>>>>,
                     <<"originalUri", originalUri>> >>)
PkceData(rnd, originalUri) ==
    JSONstringify(<< <<"codeVerifier", <<rnd.codeVerifier>>>>,
                     <<"state", <<rnd.state>>>>,
                     <<"nonce", <<rnd.nonce>>>>,
                     <<"originalUri", originalUri>> >>)

createAuthRedirect(originalUri, rnd, now) ==
    [NoResult EXCEPT
        !.kind = "response",
        !.status = "302",
        !.location = AuthorizeEndpoint \o UrlSearchParams(GateAuthParams(rnd, now)),
        !.setCookie = << SetCookieValue(COOKIE_pkce, encodeURIComponent(PkceData(rnd, originalUri)), PkceMaxAge) >>,
        !.cacheControl = <<"no-cache, no-store, must-revalidate, max-age=0">>]

publicPaths == { <<"/", "callback">>, <<"/", "signin">>, <<"/", "signout">>,
                 <<"/", "favicon", ".", "ico">>, <<"/", "robots", ".", "txt">> }

IsPublicPathNoRobots(uri) == \E path \in publicPaths \ {<<"/", "robots", ".", "txt">>} : StartsWith(uri, path)
IsPublicPath(uri) == \E path \in publicPaths : StartsWith(uri, path)

IndexHtml == <<"/", "index", ".", "html">>

IsClientRoute(uri) == ~Includes(uri, ".") /\ uri # <<"/">> /\ ~StartsWith(uri, <<"/", "api", "/">>)

CacheBustedUri(uri, now) ==
    uri \o <<(IF Includes(uri, "?") THEN "&" ELSE "?"), "_t", "=", ToString(DateNow(now))>>

GateSessionValidByAccessToken(cookies, now) ==
    LET accessToken == Lookup(cookies.map, COOKIE_accessToken)
    IN  accessToken.def /\ accessToken.s # <<>> /\ validateJWT(accessToken.s, now)

GateSessionValid(cookies, now) ==
    LET idToken == Lookup(cookies.map, COOKIE_idToken)
    IN  idToken.def /\ idToken.s # <<>> /\ validateJWT(idToken.s, now)

GateHandler(request, rnd, now) ==
    IF IsPublicPath(request.uri) THEN Allow(request)
    ELSE LET rewritten == IF IsClientRoute(request.uri)
                          THEN [request EXCEPT !.uri = IndexHtml] ELSE request
             cookieHeader == IF request.hasCookie THEN request.cookie ELSE <<>>
             cookies == parseCookies(cookieHeader)
         IN  IF cookies.threw THEN Thrown
             ELSE IF GateSessionValid(cookies, now) THEN Allow(rewritten)
             ELSE createAuthRedirect(CacheBustedUri(request.uri, now), rnd, now)

(***************************************************************************)
(* Callback Handler.                                                       *)
(***************************************************************************)
\* querystring.unescape: percent-decodes, never throws (a malformed escape is kept)
QsUnescape(s) == [i \in 1..Len(s) |-> IF s[i] = "+" THEN " " ELSE DecodeAtom(s[i])]

\* querystring.parse(qs)[key]: [def, multi, s]; multi when the key occurs more than
\* once (the value is then an array), s the first value
QsValues(qs, key) ==
    LET parts == Split(qs, "&")
        keyOf(part) == QsUnescape(SubSeq(part, 1, IF Includes(part, "=") THEN IndexOf(part, "=") - 1 ELSE Len(part)))
        valOf(part) == IF Includes(part, "=")
                       THEN QsUnescape(SubSeq(part, IndexOf(part, "=") + 1, Len(part))) ELSE <<>>
        hits == SelectSeq(parts, LAMBDA part : part # <<>> /\ keyOf(part) = <<key>>)
    IN  [i \in 1..Len(hits) |-> valOf(hits[i])]

QsParam(qs, key) ==
    LET vals == QsValues(qs, key)
    IN  IF vals = <<>> THEN [def |-> FALSE, multi |-> FALSE, s |-> <<>>]
        ELSE [def |-> TRUE, multi |-> Len(vals) > 1, s |-> vals[1]]

\* JavaScript truthiness of a query parameter
Truthy(param) == param.def /\ (param.multi \/ param.s # <<>>)

\* state !== pkceInfo.state
StateDiffersWhenGiven(state, stored) == state.def /\ (state.multi \/ ~stored.def \/ state.s # stored.s)
StateDiffers(state, stored) ==
    \/ state.multi
    \/ state.def # stored.def
    \/ state.def /\ state.s # stored.s

createErrorResponseClearingPkce(error, description) ==
    [NoResult EXCEPT
        !.kind = "response",
        !.status = "400",
        !.error = error,
        !.description = description,
        !.setCookie = << SetCookieValue(COOKIE_pkce, <<>>, 0) >>,
        !.cacheControl = <<"no-cache, no-store, must-revalidate">>]

createErrorResponse(error, description) ==
    [NoResult EXCEPT
        !.kind = "response",
        !.status = "400",
        !.error = error,
        !.description = description,
        !.cacheControl = <<"no-cache, no-store, must-revalidate">>]

\* an event is [shape, request]; shape "ok" when event.Records[0].cf.request exists
Event(shape, request) == [shape |-> shape, request |-> request]

\* what the handler holds when it reaches the token exchange, or the result it
\* returned before: [done, result, code, codeVerifier, originalUri]
CallbackEnded(result) ==
    [done |-> TRUE, result |-> result, code |-> <<>>, codeVerifier |-> Undefined, originalUri |-> Undefined]

CallbackChecks(event) ==
    IF event.shape = "no-records"
    THEN CallbackEnded(createErrorResponse(<<"invalid_event">>, <<"Invalid CloudFront event structure">>))
    ELSE IF event.shape = "no-cf"
    THEN CallbackEnded(createErrorResponse(<<"invalid_cf_record">>, <<"Invalid CloudFront record structure">>))
    ELSE
    LET request == event.request
        code  == QsParam(request.querystring, "code")
        state == QsParam(request.querystring, "state")
        error == QsParam(request.querystring, "error")
        cookieHeader == IF request.hasCookie THEN request.cookie ELSE <<>>
        cookies == parseCookies(cookieHeader)
        pkceData == Lookup(cookies.map, COOKIE_pkce)
        pkceInfo == JSONparse(pkceData.s)
    IN  IF Truthy(error)
        THEN CallbackEnded(createErrorResponse(error.s, QsParam(request.querystring, "error_description").s))
        ELSE IF ~Truthy(code)
        THEN CallbackEnded(createErrorResponse(<<"missing_code">>, <<"No authorization code received from Cognito">>))
        ELSE IF cookies.threw THEN CallbackEnded(Thrown)
        ELSE IF ~(pkceData.def /\ pkceData.s # <<>>)
        THEN CallbackEnded(createErrorResponse(<<"missing_pkce">>, <<"PKCE verification data not found">>))
        ELSE IF ~pkceInfo.ok
        THEN CallbackEnded(createErrorResponse(<<"invalid_pkce">>, <<"Invalid PKCE verification data">>))
        ELSE IF pkceInfo.kind = "null" THEN CallbackEnded(Thrown)   \* pkceInfo.state: TypeError
        ELSE IF StateDiffers(state, JsonGet(pkceInfo, "state"))
        THEN CallbackEnded(createErrorResponse(<<"state_mismatch">>, <<"State parameter validation failed">>))
        ELSE [done |-> FALSE, result |-> NoResult, code |-> code.s,
              codeVerifier |-> JsonGet(pkceInfo, "codeVerifier"),
              originalUri |-> JsonGet(pkceInfo, "originalUri")]

\* the request exchangeCodeForTokens posts to /oauth2/token
TokenRequest(code, codeVerifier) == [code |-> code, code_verifier |-> codeVerifier.s]

\* a reply of the token endpoint: kind "response" with its status and body, or
\* "neterr" (transport error).  body is "object" (a JSON object; an absent member is
\* undefined), "text" (not JSON: response.data is the raw string) or "null"
TokenReply(kind, status, body, id_token, access_token, refresh_token, hasExpiresIn, expires_in) ==
    [kind |-> kind, status |-> status, body |-> body, id_token |-> id_token,
     access_token |-> access_token, refresh_token |-> refresh_token,
     hasExpiresIn |-> hasExpiresIn, expires_in |-> expires_in]

NoReply == TokenReply("none", 0, "text", Undefined, Undefined, Undefined, FALSE, 0)

\* `${value}` of a possibly undefined string
Template(v) == IF v.def THEN v.s ELSE <<"undefined">>

\* Max-Age of the refresh-token cookie, 7 * 24 * 60 * 60
RefreshMaxAge == 604800
\* expires_in when the token endpoint gives none
DefaultExpiresIn == 3600

ExpiresInNoDefault(tokens) == tokens.expires_in
ExpiresInOf(tokens) == IF tokens.hasExpiresIn /\ tokens.expires_in # 0 THEN tokens.expires_in ELSE DefaultExpiresIn
RedirectTarget(originalUri) == IF originalUri.def /\ originalUri.s # <<>> THEN originalUri.s ELSE <<"/">>

createSuccessResponse(tokens, originalUri) ==
    [NoResult EXCEPT
        !.kind = "response",
        !.status = "302",
        !.location = RedirectTarget(originalUri),
        !.setCookie = << SetCookieValue(COOKIE_idToken, Template(tokens.id_token), ExpiresInOf(tokens)),
                         SetCookieValue(COOKIE_accessToken, Template(tokens.access_token), ExpiresInOf(tokens)),
                         SetCookieValue(COOKIE_refreshToken, Template(tokens.refresh_token), RefreshMaxAge),
                         SetCookieValue(COOKIE_pkce, <<>>, 0) >>,
        !.cacheControl = <<"no-cache, no-store, must-revalidate">>]

CallbackFinishAnyStatus(pre, reply) ==
    IF reply.kind = "neterr"
    THEN createErrorResponse(<<"token_exchange_failed">>, <<"transport error">>)
    ELSE createSuccessResponse(reply, pre.originalUri)

\* the handler from the reply of the token endpoint on
CallbackFinish(pre, reply) ==
    IF reply.kind = "neterr"
    THEN createErrorResponse(<<"token_exchange_failed">>, <<"transport error">>)
    ELSE IF reply.status # 200
    THEN createErrorResponse(<<"token_exchange_failed">>, <<"Token exchange failed: ", ToString(reply.status)>>)
    ELSE IF reply.body = "null"      \* tokens.id_token: TypeError, caught by the handler
    THEN createErrorResponse(<<"token_exchange_failed">>, <<"Cannot read properties of null">>)
    ELSE createSuccessResponse(reply, pre.originalUri)

(***************************************************************************)
(* Sign-In Initiator and Sign-Out Handler.                                 *)
(***************************************************************************)
NoParams == [threw |-> FALSE, map |-> <<>>]

\* params[decodeURIComponent(key)] = decodeURIComponent(value) for each key=value
RECURSIVE ParseQueryParts(_, _)
ParseQueryParts(parts, acc) ==
    IF parts = <<>> THEN acc
    ELSE LET kv    == Split(Head(parts), "=")
             key   == kv[1]
             value == IF Len(kv) >= 2 THEN kv[2] ELSE <<>>
         IN  IF key # <<>> /\ value # <<>>
             THEN IF DecodeThrows(key) \/ DecodeThrows(value)
                  THEN [threw |-> TRUE, map |-> acc.map]
                  ELSE ParseQueryParts(Tail(parts),
                         [threw |-> FALSE,
                          map |-> Append(acc.map, <<decodeURIComponent(key), decodeURIComponent(value)>>)])
             ELSE ParseQueryParts(Tail(parts), acc)

parseQueryString(queryString) ==
    IF queryString # <<>> THEN ParseQueryParts(Split(queryString, "&"), NoParams)
    ELSE NoParams

\* params.redirect || fallback
RedirectParam(params, fallback) ==
    LET redirect == Lookup(params.map, <<"redirect">>)
    IN  IF redirect.def /\ redirect.s # <<>> THEN redirect.s ELSE fallback

SignInAuthParamsNoNonce(rnd) ==
    << <<"response_type", <<"code">>>>,
       <<"client_id", CLIENT_ID>>,
       <<"redirect_uri", REDIRECT_URI>>,
       <<"scope", <<"openid", " ", "email", " ", "profile">>>>,
       <<"state", <<rnd.state>>>>,
       <<"code_challenge", <<generatePKCE(rnd).codeChallenge>>>>,
       <<"code_challenge_method", <<"S256">>>> >>
SignInAuthParams(rnd) ==
    << <<"response_type", <<"code">>>>,
       <<"client_id", CLIENT_ID>>,
       <<"redirect_uri", REDIRECT_URI>>,
       <<"scope", <<"openid", " ", "email", " ", "profile">>>>,
       <<"state", <<rnd.state>>>>,
       <<"nonce", <<rnd.nonce>>>>,
       <<"code_challenge", <<generatePKCE(rnd).codeChallenge>>>>,
       <<"code_challenge_method", <<"S256">>>> >>

SignInHandler(request, rnd) ==
    LET params == parseQueryString(request.querystring)
    IN  IF params.threw THEN Thrown
        ELSE [NoResult EXCEPT
                !.kind = "response",
                !.status = "302",
                !.location = AuthorizeEndpoint \o UrlSearchParams(SignInAuthParams(rnd)),
                !.setCookie = << SetCookieValue(COOKIE_pkce,
                                    encodeURIComponent(PkceData(rnd, RedirectParam(params, <<"/">>))),
                                    PkceMaxAge) >>,
                !.cacheControl = <<"no-cache, no-store, must-revalidate">>]

LOGOUT_URI == <<"https", ":", "/", "/", "cdn.example">>

\* `${CONFIG.COOKIE_SETTINGS.nonce}`: config.js has no nonce entry
COOKIE_nonce == <<"undefined">>

cookiesToClear == <<COOKIE_idToken, COOKIE_accessToken, COOKIE_refreshToken, COOKIE_nonce, COOKIE_pkce>>

LogoutEndpoint == USER_POOL_DOMAIN \o <<"/", "logout", "?">>

LogoutParams(redirectAfterLogout) ==
    << <<"client_id", CLIENT_ID>>,
       <<"logout_uri", redirectAfterLogout>>,
       <<"redirect_uri", redirectAfterLogout>> >>

SignOutHandler(request) ==
    LET params == parseQueryString(request.querystring)
    IN  IF params.threw THEN Thrown
        ELSE [NoResult EXCEPT
                !.kind = "response",
                !.status = "302",
                !.location = LogoutEndpoint \o UrlSearchParams(LogoutParams(RedirectParam(params, LOGOUT_URI))),
                !.setCookie = [i \in 1..Len(cookiesToClear) |-> SetCookieValue(cookiesToClear[i], <<>>, 0)],
                !.cacheControl = <<"no-cache, no-store, must-revalidate">>]

(***************************************************************************)
(* The browser: a cookie jar (a sequence of <<name, value>>), what it      *)
(* stores from a Set-Cookie header and the cookie header it sends.         *)
(***************************************************************************)
SetCookieName(sc) == SubSeq(sc, 1, IndexOf(sc, "=") - 1)
SetCookiePair(sc) == Split(sc, ";")[1]
SetCookieVal(sc) == SubSeq(SetCookiePair(sc), IndexOf(sc, "=") + 1, Len(SetCookiePair(sc)))
SetCookieMaxAge(sc) == sc[Len(sc)]

BrowserStore(jar, sc) ==
    LET others == SelectSeq(jar, LAMBDA c : c[1] # SetCookieName(sc))
    IN  IF SetCookieMaxAge(sc) = "0" THEN others
        ELSE Append(others, <<SetCookieName(sc), SetCookieVal(sc)>>)

RECURSIVE BrowserStoreAll(_, _)
BrowserStoreAll(jar, scs) ==
    IF scs = <<>> THEN jar ELSE BrowserStoreAll(BrowserStore(jar, Head(scs)), Tail(scs))

RECURSIVE CookieHeaderOf(_)
CookieHeaderOf(jar) ==
    IF jar = <<>> THEN <<>>
    ELSE jar[1][1] \o <<"=">> \o jar[1][2]
         \o (IF Len(jar) > 1 THEN <<";", " ">> \o CookieHeaderOf(Tail(jar)) ELSE <<>>)

BrowserRequest(uri, querystring, jar) == Req(uri, querystring, jar # <<>>, CookieHeaderOf(jar))

\* the browser splits a Location into path and query string
LocationPath(location) == Split(location, "?")[1]
LocationQuery(location) ==
    IF Includes(location, "?") THEN SubSeq(location, IndexOf(location, "?") + 1, Len(location)) ELSE <<>>

(***************************************************************************)
(* State.                                                                  *)
(*   now        the clock, Unix seconds                                    *)
(*   inv        the last handler invocation that ended: its handler, the   *)
(*              event, the clock when it ran, the reply of the token       *)
(*              endpoint it got, its result and the number of requests it  *)
(*              made to the token endpoint                                 *)
(*   prev       when the last invocation served a request the browser made *)
(*              in answer to a response (the return from the provider, the *)
(*              request after signing out): the invocation that gave that  *)
(*              response                                                   *)
(*   jar        the browser's cookies                                      *)
(*   requests   the number of requests the browser has made                *)
(*   authSeen   the state values of the authorize URLs the browser was     *)
(*              sent to                                                    *)
(*   pending    Callback invocations waiting for the token endpoint        *)
(*   tokenReqs  the requests the token endpoint has received               *)
(*   flow       where the sign-in of a fresh visitor stands                *)
(***************************************************************************)
VARIABLES now, inv, prev, jar, requests, authSeen, pending, tokenReqs, flow

vars == <<now, inv, prev, jar, requests, authSeen, pending, tokenReqs, flow>>

\* the random values drawn while serving the n-th request (distinct draws give distinct
\* values)
Rnd(n) == [codeVerifier |-> "v" \o ToString(n), state |-> "s" \o ToString(n), nonce |-> "n" \o ToString(n)]

Invocation(handler, event, at, reply, result, tokenCalls) ==
    [handler |-> handler, event |-> event, at |-> at, reply |-> reply, result |-> result,
     tokenCalls |-> tokenCalls]

NoFlow == [stage |-> "none", uri |-> <<>>, state |-> "", exp |-> 0, fresh |-> FALSE]

Init ==
    /\ now = 0
    /\ inv = Invocation("none", Event("ok", NoReq), 0, NoReply, NoResult, 0)
    /\ prev = Invocation("none", Event("ok", NoReq), 0, NoReply, NoResult, 0)
    /\ jar = <<>>
    /\ requests = 0
    /\ authSeen = {}
    /\ pending = <<>>
    /\ tokenReqs = <<>>
    /\ flow = NoFlow

Tick ==
    /\ now < MaxNow
    /\ now' = now + 1
    /\ UNCHANGED <<prev, inv, jar, requests, authSeen, pending, tokenReqs, flow>>

(***************************************************************************)
(* Sample inputs of single invocations.                                    *)
(***************************************************************************)
SampleUris ==
    publicPaths \cup
    { <<"/">>, <<"/", "dashboard">>, <<"/", "projects", "/", "42">>, <<"/", "app", ".", "js">>,
      <<"/", "api", "/", "users">>, <<"/", "api">>, IndexHtml,
      <<"/", "v1", ".", "2", "/", "users">>,
      <<"/", "signin", "-admin">>, <<"/", "callback", "data", "/", "report">>,
      <<"/", "favicon", ".", "ico", ".", "bak">>,
      <<"/", "a", "%20", "b", ";", "c", "=", "d">> }

SampleQueries == { <<>>, <<"tab", "=", "2">> }

SampleTokens ==
    { Jwt("pl-id-exp" \o ToString(e)) : e \in 0..MaxExp } \cup
    { Jwt("pl-access-exp" \o ToString(MaxExp)), Jwt("pl-nouse-exp" \o ToString(MaxExp)),
      Jwt("pl-id-noexp"), Jwt("pl-empty-object"), Jwt("pl-null"), Jwt("pl-number"),
      Jwt("not-json"),
      <<"hdr", ".", "pl-id-exp" \o ToString(MaxExp)>>,
      <<"hdr", ".", "pl-id-exp" \o ToString(MaxExp), ".", "sig", ".", "more">>,
      <<"opaque">> }

GoodToken == Jwt("pl-id-exp" \o ToString(MaxExp))

SampleGateCookies ==
    { COOKIE_idToken \o <<"=">> \o tok : tok \in SampleTokens } \cup
    { <<>>,
      <<"theme", "=", "dark">>,
      <<"theme", "=", "dark", ";", " ">> \o COOKIE_idToken \o <<"=">> \o GoodToken,
      COOKIE_idToken \o <<"=">> \o GoodToken \o <<";", " ", "bad", "=", "%zz">>,
      COOKIE_idToken \o <<"=", "%">>,
      COOKIE_idToken,
      COOKIE_idToken \o <<"=">>,
      <<"pref", "=", "a", "=", "b", ";", " ">> \o COOKIE_idToken \o <<"=">> \o GoodToken,
      <<"flag", ";", " ", "=", "x", ";", " ", "empty", "=", ";", " ">> \o COOKIE_idToken \o <<"=">> \o GoodToken }

SampleGateRequests ==
    { Req(uri, qs, TRUE, c) : uri \in SampleUris, qs \in SampleQueries, c \in SampleGateCookies }
    \cup { Req(uri, qs, FALSE, <<>>) : uri \in SampleUris, qs \in SampleQueries }

PkceCookie(members) == COOKIE_pkce \o <<"=">> \o encodeURIComponent(JSONstringify(members))

SampleOriginalUri == <<"/", "dashboard", "?", "_t", "=", "0">>

SamplePkceMembers ==
    { << <<"codeVerifier", <<"v1">>>>, <<"state", <<st>>>>, <<"nonce", <<"n1">>>>, <<"originalUri", SampleOriginalUri>> >>
        : st \in {"s1", "s2"} } \cup
    { << <<"codeVerifier", <<"v1">>>>, <<"state", <<"s1">>>>, <<"nonce", <<"n1">>>> >>,
      << <<"codeVerifier", <<"v1">>>>, <<"nonce", <<"n1">>>>, <<"originalUri", SampleOriginalUri>> >>,
      << <<"state", <<"s1">>>> >> }

SampleCallbackCookies ==
    { PkceCookie(m) : m \in SamplePkceMembers } \cup
    { <<>>,
      COOKIE_pkce \o <<"=", "null">>,
      COOKIE_pkce \o <<"=", "7">>,
      COOKIE_pkce \o <<"=", "%7B", "oops">>,
      COOKIE_pkce \o <<"=", "%7B", "%7D">>,
      <<"bad", "=", "%zz", ";", " ">> \o PkceCookie(CHOOSE m \in SamplePkceMembers : Len(m) = 1),
      PkceCookie(CHOOSE m \in SamplePkceMembers : Len(m) = 1) \o <<";", " ", "bad", "=", "%zz">>,
      COOKIE_idToken \o <<"=">> \o GoodToken }

SampleCallbackQueries ==
    { <<>>,
      <<"code", "=", "c1", "&", "state", "=", "s1">>,
      <<"code", "=", "c1", "&", "state", "=", "s2">>,
      <<"code", "=", "c1">>,
      <<"state", "=", "s1">>,
      <<"code", "=", "&", "state", "=", "s1">>,
      <<"code", "=", "c1", "&", "state", "=", "s1", "&", "state", "=", "s1">>,
      <<"error", "=", "access_denied", "&", "error_description", "=", "denied", "&", "state", "=", "s2">>,
      <<"error", "=", "access_denied", "&", "code", "=", "c1", "&", "state", "=", "s1">>,
      <<"error", "=", "&", "code", "=", "c1", "&", "state", "=", "s1">> }

SampleEvents ==
    { Event("ok", Req(<<"/", "callback">>, qs, c # <<>>, c)) : qs \in SampleCallbackQueries, c \in SampleCallbackCookies }
    \cup { Event(shape, NoReq) : shape \in {"no-records", "no-cf"} }

\* expires_in values of the samples
SampleExpiresIn == {300, 3600}

SampleReplies ==
    { TokenReply("response", 200, "object", Str(tok), Str(<<"at">>), Str(<<"rt">>), TRUE, e)
        : tok \in {GoodToken, Jwt("pl-id-exp0")}, e \in SampleExpiresIn } \cup
    { TokenReply("response", 200, "object", Str(GoodToken), Str(<<"at">>), Str(<<"rt">>), FALSE, 0),
      TokenReply("response", 200, "object", Undefined, Str(<<"at">>), Undefined, TRUE, 3600),
      TokenReply("response", 200, "text", Undefined, Undefined, Undefined, FALSE, 0),
      TokenReply("response", 200, "null", Undefined, Undefined, Undefined, FALSE, 0),
      TokenReply("response", 400, "object", Undefined, Undefined, Undefined, FALSE, 0),
      TokenReply("neterr", 0, "text", Undefined, Undefined, Undefined, FALSE, 0) }

(***************************************************************************)
(* Single invocations on the sample inputs: the clock is drawn, then one   *)
(* handler runs once on one input.                                         *)
(***************************************************************************)
GateInvoke ==
    \E request \in SampleGateRequests :
        /\ inv.handler = "none"
        /\ inv' = Invocation("gate", Event("ok", request), now, NoReply,
                             GateHandler(request, Rnd(requests + 1), now), 0)
        /\ UNCHANGED <<prev, now, jar, requests, authSeen, pending, tokenReqs, flow>>

CallbackInvoke ==
    \E event \in SampleEvents, reply \in SampleReplies :
        LET pre == CallbackChecks(event)
        IN  /\ inv.handler = "none"
            /\ inv' = IF pre.done
                      THEN Invocation("callback", event, now, NoReply, pre.result, 0)
                      ELSE Invocation("callback", event, now, reply, CallbackFinish(pre, reply), 1)
            /\ UNCHANGED <<prev, now, jar, requests, authSeen, pending, tokenReqs, flow>>

\* query strings of /signin and /signout requests
SampleRedirectQueries ==
    { <<>>,
      <<"redirect", "=", "%2F", "dashboard">>,
      <<"redirect", "=", "/", "dashboard">>,
      <<"redirect", "=">>,
      <<"redirect">>,
      <<"other", "=", "1">>,
      <<"other", "=", "1", "&", "redirect", "=", "%2F", "a", "%3F", "x", "%3D", "1">>,
      <<"redirect", "=", "/", "a", "?", "x", "=", "1">>,
      <<"redirect", "=", "%2F", "a", "&", "redirect", "=", "%2F", "b">>,
      <<"redirect", "=", "%zz">>,
      <<"%", "=", "1">>,
      <<"redirect", "=", "https", "%3A", "%2F", "%2F", "evil.example">>,
      <<"redirect", "=", "%2F", "a", "%3B", "b", "%20", "c", "%25", "%26", "d">>,
      <<"redirect", "=", "%252F", "a">> }

\* the cookie header of a browser with a session
SessionCookieHeader ==
    COOKIE_idToken \o <<"=">> \o GoodToken \o <<";", " ">> \o COOKIE_accessToken \o <<"=", "at">>
      \o <<";", " ">> \o COOKIE_refreshToken \o <<"=", "rt">>

SampleSignCookies ==
    { <<>>, COOKIE_idToken \o <<"=">> \o GoodToken, <<"bad", "=", "%zz">>, SessionCookieHeader }

SampleSignInRequests ==
    { Req(<<"/", "signin">>, qs, c # <<>>, c) : qs \in SampleRedirectQueries, c \in SampleSignCookies }

SampleSignOutRequests ==
    { Req(<<"/", "signout">>, qs, c # <<>>, c) : qs \in SampleRedirectQueries, c \in SampleSignCookies }

SignInInvoke ==
    \E request \in SampleSignInRequests :
        /\ inv.handler = "none"
        /\ inv' = Invocation("signin", Event("ok", request), now, NoReply,
                             SignInHandler(request, Rnd(requests + 1)), 0)
        /\ UNCHANGED <<prev, now, jar, requests, authSeen, pending, tokenReqs, flow>>

SignOutInvoke ==
    \E request \in SampleSignOutRequests :
        /\ inv.handler = "none"
        /\ inv' = Invocation("signout", Event("ok", request), now, NoReply,
                             SignOutHandler(request), 0)
        /\ UNCHANGED <<prev, now, jar, requests, authSeen, pending, tokenReqs, flow>>

(***************************************************************************)
(* The browser's answer to a response of a single invocation: the return   *)
(* from the provider after an authentication redirect, and the next        *)
(* request after signing out.                                              *)
(***************************************************************************)
\* the cookies of a cookie header the browser sent
JarOfHeader(header) ==
    IF header = <<>> THEN <<>>
    ELSE LET parts == Split(header, ";")
         IN  [i \in 1..Len(parts) |->
                LET seg == TrimLeft(parts[i])
                IN  <<SubSeq(seg, 1, IndexOf(seg, "=") - 1), SubSeq(seg, IndexOf(seg, "=") + 1, Len(seg))>>]

\* the cookie header of the return: the cookies the browser sent before, then the
\* cookie of the redirect
ReturnCookieHeader(request, result) ==
    (IF request.hasCookie /\ request.cookie # <<>> THEN request.cookie \o <<";", " ">> ELSE <<>>)
      \o SetCookiePair(result.setCookie[1])

\* the provider sends the browser back with a code and the state of the authorize URL
ReturnRequest(request, result) ==
    Req(<<"/", "callback">>,
        <<"code", "=", "c1", "&", "state", "=">> \o QsParam(LocationQuery(result.location), "state").s,
        TRUE, ReturnCookieHeader(request, result))

\* what the token endpoint answers to the code of a return
ReturnReplies ==
    { TokenReply("response", 200, "object", Str(GoodToken), Str(<<"at">>), Str(<<"rt">>), TRUE, 3600),
      TokenReply("response", 400, "object", Undefined, Undefined, Undefined, FALSE, 0) }

\* after the redirect of Request Gate or Sign-In the provider sends the browser back to
\* /callback; the Callback runs
ReturnFromProvider ==
    /\ prev.handler = "none"
    /\ inv.handler \in {"gate", "signin"}
    /\ inv.result.kind = "response" /\ inv.result.status = "302"
    /\ \E reply \in ReturnReplies :
       \E event \in {Event("ok", ReturnRequest(inv.event.request, inv.result))} :
       \E pre \in {CallbackChecks(event)} :
           /\ prev' = inv
           /\ inv' = IF pre.done
                     THEN Invocation("callback", event, now, NoReply, pre.result, 0)
                     ELSE Invocation("callback", event, now, reply, CallbackFinish(pre, reply), 1)
           /\ tokenReqs' = IF pre.done THEN tokenReqs
                           ELSE Append(tokenReqs, TokenRequest(pre.code, pre.codeVerifier))
    /\ UNCHANGED <<now, jar, requests, authSeen, pending, flow>>

\* after the response of Sign-Out the browser, having applied its Set-Cookie headers,
\* asks for a URI; Request Gate answers
RequestAfterSignOut ==
    /\ prev.handler = "none"
    /\ inv.handler = "signout"
    /\ inv.result.kind = "response"
    /\ \E uri \in SampleUris :
       \E cookies \in {BrowserStoreAll(JarOfHeader(inv.event.request.cookie), inv.result.setCookie)} :
       \E request \in {BrowserRequest(uri, <<>>, cookies)} :
           /\ prev' = inv
           /\ inv' = Invocation("gate", Event("ok", request), now, NoReply,
                                GateHandler(request, Rnd(requests + 1), now), 0)
           /\ jar' = cookies
    /\ UNCHANGED <<now, requests, authSeen, pending, tokenReqs, flow>>

HandlerNext ==
    \/ Tick
    \/ GateInvoke
    \/ CallbackInvoke
    \/ SignInInvoke
    \/ SignOutInvoke
    \/ ReturnFromProvider
    \/ RequestAfterSignOut

HandlerSpec == Init /\ [][HandlerNext]_vars

(***************************************************************************)
(* The system: one browser, the gateway, the identity provider and the     *)
(* token endpoint.                                                         *)
(***************************************************************************)
\* the protected URIs the visitor asks for
BrowseUris == { <<"/", "dashboard">>, <<"/", "app", ".", "js">> }

\* the authorization codes the provider hands out
Codes == {"c1"}

IsAuthRedirect(result) == result.kind = "response" /\ result.status = "302"

\* the state parameter of an authorize URL
StateOfLocation(location) == QsParam(LocationQuery(location), "state").s[1]

AfterResponse(cookies, result) == IF result.kind = "response" THEN BrowserStoreAll(cookies, result.setCookie) ELSE cookies

\* the browser asks for a protected URI; Request Gate answers
Navigate ==
    \E uri \in BrowseUris :
        \E request \in {BrowserRequest(uri, <<>>, jar)} :
        \E result \in {GateHandler(request, Rnd(requests + 1), now)} :
            /\ requests < MaxRequests
            /\ inv' = Invocation("gate", Event("ok", request), now, NoReply, result, 0)
            /\ jar' = AfterResponse(jar, result)
            /\ requests' = requests + 1
            /\ authSeen' = IF IsAuthRedirect(result)
                           THEN authSeen \cup {StateOfLocation(result.location)} ELSE authSeen
            /\ flow' = IF jar = <<>> /\ pending = <<>> /\ IsAuthRedirect(result)
                       THEN [NoFlow EXCEPT !.stage = "redirected", !.uri = uri,
                                           !.state = StateOfLocation(result.location)]
                       ELSE NoFlow
            /\ UNCHANGED <<prev, now, pending, tokenReqs>>

\* the /callback request the browser makes when the provider sends it back (or that it
\* repeats) with the state of an authorize URL it was sent to
CallbackRequest(st, outcome) ==
    BrowserRequest(<<"/", "callback">>,
                   IF outcome = "code" THEN <<"code", "=", CHOOSE c \in Codes : TRUE, "&", "state", "=", st>>
                   ELSE <<"error", "=", "access_denied", "&", "state", "=", st>>,
                   jar)

IsHonestReturn(st, outcome) ==
    flow.stage = "redirected" /\ flow.state = st /\ outcome = "code" /\ pending = <<>>

\* the Callback ends before the token exchange
CallbackRejects ==
    \E st \in authSeen, outcome \in {"code", "error"} :
        \E event \in {Event("ok", CallbackRequest(st, outcome))} :
        \E pre \in {CallbackChecks(event)} :
            /\ requests < MaxRequests
            /\ pre.done
            /\ inv' = Invocation("callback", event, now, NoReply, pre.result, 0)
            /\ jar' = AfterResponse(jar, pre.result)
            /\ requests' = requests + 1
            /\ flow' = IF IsHonestReturn(st, outcome) THEN [flow EXCEPT !.stage = "failed"] ELSE NoFlow
            /\ UNCHANGED <<prev, now, authSeen, pending, tokenReqs>>

\* the Callback passes its checks and posts to the token endpoint
CallbackStartsExchange ==
    \E st \in authSeen :
        \E event \in {Event("ok", CallbackRequest(st, "code"))} :
        \E pre \in {CallbackChecks(event)} :
            /\ requests < MaxRequests
            /\ ~pre.done
            /\ requests' = requests + 1
            /\ pending' = Append(pending, [event |-> event, pre |-> pre, honest |-> IsHonestReturn(st, "code")])
            /\ tokenReqs' = Append(tokenReqs, TokenRequest(pre.code, pre.codeVerifier))
            /\ flow' = IF IsHonestReturn(st, "code") THEN [flow EXCEPT !.stage = "exchanging"] ELSE NoFlow
            /\ UNCHANGED <<prev, now, inv, jar, authSeen>>

\* what the token endpoint may answer: an id token that expires in the next second or
\* later, an error status, a transport error
SystemReplies ==
    { TokenReply("response", 200, "object", Str(Jwt("pl-id-exp" \o ToString(e))), Str(<<"at">>), Str(<<"rt">>), TRUE, 3600)
        : e \in {now + 1, MaxExp} } \cup
    { TokenReply("response", 400, "object", Undefined, Undefined, Undefined, FALSE, 0),
      TokenReply("neterr", 0, "text", Undefined, Undefined, Undefined, FALSE, 0) }

\* the exp of the id token of a 200 reply
ReplyExp(reply) == B64UrlJson(Split(reply.id_token.s, ".")[2]).exp

\* the token endpoint answers a waiting Callback, which ends; the browser takes the response
TokenEndpointReplies ==
    \E i \in 1..Len(pending), reply \in SystemReplies :
        \E p \in {pending[i]} :
        \E result \in {CallbackFinish(p.pre, reply)} :
            /\ inv' = Invocation("callback", p.event, now, reply, result, 1)
            /\ jar' = AfterResponse(jar, result)
            /\ pending' = [j \in 1..(Len(pending) - 1) |-> IF j < i THEN pending[j] ELSE pending[j + 1]]
            /\ flow' = IF p.honest /\ flow.stage = "exchanging" /\ reply.kind = "response"
                          /\ reply.status = 200 /\ ReplyExp(reply) > now
                       THEN [flow EXCEPT !.stage = "authed", !.exp = ReplyExp(reply)]
                       ELSE NoFlow
            /\ UNCHANGED <<prev, now, requests, authSeen, tokenReqs>>

\* the browser follows the Location of the Callback's redirect with the cookies it holds
FollowRedirect ==
    /\ requests < MaxRequests
    /\ flow.stage = "authed"
    /\ IsAuthRedirect(inv.result)
    /\ \E request \in {BrowserRequest(LocationPath(inv.result.location), LocationQuery(inv.result.location), jar)} :
       \E result \in {GateHandler(request, Rnd(requests + 1), now)} :
           /\ inv' = Invocation("gate", Event("ok", request), now, NoReply, result, 0)
           /\ jar' = AfterResponse(jar, result)
           /\ requests' = requests + 1
           /\ authSeen' = IF IsAuthRedirect(result)
                          THEN authSeen \cup {StateOfLocation(result.location)} ELSE authSeen
           /\ flow' = [flow EXCEPT !.stage = "landed", !.fresh = flow.exp > now]
    /\ UNCHANGED <<prev, now, pending, tokenReqs>>

Next ==
    \/ Tick
    \/ Navigate
    \/ CallbackRejects
    \/ CallbackStartsExchange
    \/ TokenEndpointReplies
    \/ FollowRedirect

Spec == Init /\ [][Next]_vars

(***************************************************************************)
(* Vocabulary of the properties: the last invocation and what the spec     *)
(* says about its input.                                                   *)
(***************************************************************************)
InvRequest == inv.event.request
InvCookieHeader == IF InvRequest.hasCookie THEN InvRequest.cookie ELSE <<>>
InvIsGate == inv.handler = "gate"
InvIsCallback == inv.handler = "callback" /\ inv.event.shape = "ok"

\* the result is the request, rewritten or not
Allowed == inv.result.kind = "request"
\* the result is the 302 to /oauth2/authorize with a pkce-state cookie of Max-Age=600
RedirectedToProvider ==
    /\ inv.result.kind = "response"
    /\ inv.result.status = "302"
    /\ StartsWith(inv.result.location, AuthorizeEndpoint)
    /\ Len(inv.result.setCookie) = 1
    /\ SetCookieName(inv.result.setCookie[1]) = COOKIE_pkce
    /\ SetCookieMaxAge(inv.result.setCookie[1]) = "600"

ErrorPage(code) ==
    /\ inv.result.kind = "response"
    /\ inv.result.status = "400"
    /\ inv.result.error = code

\* the allow-list, matched exactly
OnAllowList(uri) == uri \in publicPaths

\* the id-token cookie the request carries (the cookies that precede a malformed one)
InvIdToken == Lookup(parseCookies(InvCookieHeader).map, COOKIE_idToken)

\* section 4.1.1: three segments, JSON payload, exp strictly after now, token_use "id"
SpecValidToken(token, at) ==
    /\ Len(Split(token, ".")) = 3
    /\ LET payload == B64UrlJson(Split(token, ".")[2])
       IN  /\ payload.ok /\ payload.kind = "object"
           /\ payload.hasExp /\ payload.exp > at
           /\ payload.hasUse /\ payload.use = "id"

SpecValidSession == InvIdToken.def /\ SpecValidToken(InvIdToken.s, inv.at)

\* the request carries exactly the id-token cookie with this token
CarriesOnly(token) == InvRequest.hasCookie /\ InvRequest.cookie = COOKIE_idToken \o <<"=">> \o token

\* the query's state and the state stored in the pkce-state cookie, read off the input
InvQueryState == QsParam(InvRequest.querystring, "state")
InvStoredState == JsonGet(JSONparse(Lookup(parseCookies(InvCookieHeader).map, COOKIE_pkce).s), "state")
InvStateDiffers ==
    /\ InvStoredState.def
    /\ (~InvQueryState.def \/ InvQueryState.multi \/ InvQueryState.s # InvStoredState.s)
\* the invocation gets as far as the state comparison
InvReachesStateCheck ==
    /\ ~Truthy(QsParam(InvRequest.querystring, "error"))
    /\ Truthy(QsParam(InvRequest.querystring, "code"))
    /\ ~parseCookies(InvCookieHeader).threw

C2_NoPassWithoutSession ==
    (InvIsGate /\ ~OnAllowList(InvRequest.uri) /\ ~parseCookies(InvCookieHeader).threw
       /\ ~(InvIdToken.def /\ validateJWT(InvIdToken.s, inv.at)))
    => RedirectedToProvider

(***************************************************************************)
(* C3.  The sign-in flow ends at the requested URI, without a loop.        *)
(***************************************************************************)
\* C3: a browser without cookies asks for a protected URI U and is redirected; the
\* provider sends it back to /callback with the issued state and a code: the Callback
\* does not reject that return.  When the token endpoint then replies 200 with an
\* unexpired id token, the Callback answers 302 with the path of Location equal to U
\* (the query is the cache-busting _t), and the browser's next request, to that
\* Location with the cookies just set, is allowed through by Request Gate while the
\* token is unexpired.
C3_FlowCompletes ==
    /\ flow.stage # "failed"
    /\ (flow.stage = "authed" =>
            /\ InvIsCallback /\ inv.tokenCalls = 1
            /\ inv.result.kind = "response" /\ inv.result.status = "302"
            /\ LocationPath(inv.result.location) = flow.uri)
    /\ (flow.stage = "landed" /\ flow.fresh =>
            /\ InvIsGate /\ Allowed
            /\ InvRequest.uri = flow.uri)

C3_Witness ==
    /\ flow.stage = "landed" /\ flow.fresh
    /\ InvIsGate /\ Allowed
    /\ InvRequest.uri = flow.uri
    /\ SpecValidSession

(***************************************************************************)
(* C4.  A PKCE transaction is used for one token request.                  *)
(***************************************************************************)
\* C4: over the Callback invocations of one browser, no two token requests carry the
\* same codeVerifier, and a Callback invocation that made its token request answers
\* with a Set-Cookie that clears the pkce-state cookie (empty value, Max-Age=0).
C4_ConsumedOnce ==
    /\ \A i, j \in 1..Len(tokenReqs) :
           i # j => tokenReqs[i].code_verifier # tokenReqs[j].code_verifier
    /\ (InvIsCallback /\ inv.tokenCalls = 1 =>
           \E k \in 1..Len(inv.result.setCookie) :
               /\ SetCookieName(inv.result.setCookie[k]) = COOKIE_pkce
               /\ SetCookieMaxAge(inv.result.setCookie[k]) = "0")

(***************************************************************************)
(* C5.  exp must be strictly after the current second.                     *)
(***************************************************************************)
\* C5: a well-formed token with token_use "id" whose exp equals the current second is
\* rejected, and Request Gate redirects the request that carries it to the provider.
C5_ExpStrictlyAfterNow ==
    (InvIsGate /\ ~IsPublicPath(InvRequest.uri)
       /\ CarriesOnly(Jwt("pl-id-exp" \o ToString(inv.at))))
    => (~validateJWT(Jwt("pl-id-exp" \o ToString(inv.at)), inv.at) /\ RedirectedToProvider)

(***************************************************************************)
(* C6.  Parse failures and missing fields are invalid.                     *)
(***************************************************************************)
\* the token lacks a segment, a JSON payload, exp or token_use
C6_Malformed(token) ==
    \/ Len(Split(token, ".")) # 3
    \/ LET payload == B64UrlJson(Split(token, ".")[2])
       IN  ~payload.ok \/ ~payload.hasExp \/ ~payload.hasUse

\* C6: a token without exactly three segments, with a middle segment that is not JSON,
\* or with a payload that has no exp or no token_use, is rejected by validateJWT, so
\* Request Gate redirects the request that carries it.
C6_MissingFieldInvalid ==
    \A token \in SampleTokens :
        (InvIsGate /\ ~IsPublicPath(InvRequest.uri) /\ CarriesOnly(token) /\ C6_Malformed(token))
        => (~validateJWT(token, inv.at) /\ RedirectedToProvider)

(***************************************************************************)
(* C7.  Expiry boundary.                                                   *)
(***************************************************************************)
\* C7: a well-formed token with token_use "id" is rejected when exp = now - 1 and
\* accepted when exp = now + 1; Request Gate redirects the first and allows the second.
C7_ExpiryBoundary ==
    \A e \in 0..MaxExp :
        (InvIsGate /\ ~IsPublicPath(InvRequest.uri) /\ CarriesOnly(Jwt("pl-id-exp" \o ToString(e))))
        => /\ (e = inv.at - 1) => (~validateJWT(Jwt("pl-id-exp" \o ToString(e)), inv.at) /\ RedirectedToProvider)
           /\ (e = inv.at + 1) => (validateJWT(Jwt("pl-id-exp" \o ToString(e)), inv.at) /\ Allowed)

C7_Witness ==
    /\ InvIsGate /\ ~IsPublicPath(InvRequest.uri)
    /\ CarriesOnly(Jwt("pl-id-exp" \o ToString(inv.at + 1)))
    /\ Allowed

(***************************************************************************)
(* C8.  Idempotent allow of the public paths.                              *)
(***************************************************************************)
\* C8: a request to one of the public paths is returned unchanged (same uri, query
\* string and cookie header, no rewrite) whatever its cookie header holds.
C8_PublicUnchanged ==
    (InvIsGate /\ OnAllowList(InvRequest.uri)) => (Allowed /\ inv.result.request = InvRequest)

C8_Witness ==
    /\ InvIsGate /\ InvRequest.uri = <<"/", "robots", ".", "txt">>
    /\ parseCookies(InvCookieHeader).threw
    /\ Allowed /\ inv.result.request = InvRequest

(***************************************************************************)
(* C9.  Client-side route rewrite.                                         *)
(***************************************************************************)
\* the URIs section 4.1 step 2 rewrites, "no file extension" read as no "." in the URI
C9_ShouldRewrite(uri) == ~Includes(uri, ".") /\ uri # <<"/">> /\ ~StartsWith(uri, <<"/", "api", "/">>)

\* C9, for the requests that get past the public-path check and reading "no file
\* extension" as the code does (no "." in the URI): the request is returned exactly when
\* its id-token cookie is a valid session token (section 4.1.1) and is redirected to the
\* provider otherwise; a returned request has uri /index.html exactly when the URI has
\* no ".", is not "/" and does not start with /api/, and its own uri otherwise.
\* (Stated on the cookie headers that decode.)
C9_RewriteNeverBypasses ==
    (InvIsGate /\ ~IsPublicPath(InvRequest.uri) /\ ~parseCookies(InvCookieHeader).threw) =>
        /\ Allowed <=> SpecValidSession
        /\ ~Allowed => RedirectedToProvider
        /\ Allowed => inv.result.request =
                        [InvRequest EXCEPT !.uri = IF C9_ShouldRewrite(InvRequest.uri) THEN IndexHtml ELSE @]

(***************************************************************************)
(* C10.  Callback success response.                                        *)
(***************************************************************************)
\* the originalUri of the transaction in the pkce-state cookie
C10_OriginalUri == JsonGet(JSONparse(Lookup(parseCookies(InvCookieHeader).map, COOKIE_pkce).s), "originalUri")

\* C10: when all checks pass and the token endpoint replies 200 with its JSON body, the
\* result is a 302 to the transaction's originalUri ("/" when it has none) with exactly
\* four Set-Cookie headers: id-token and access-token with Max-Age = expires_in (3600
\* when absent), refresh-token with Max-Age=604800, pkce-state empty with Max-Age=0.
C10_SuccessResponse ==
    (InvIsCallback /\ inv.tokenCalls = 1 /\ inv.reply.kind = "response"
       /\ inv.reply.status = 200 /\ inv.reply.body = "object")
    => LET sc == inv.result.setCookie
           age == IF inv.reply.hasExpiresIn THEN ToString(inv.reply.expires_in) ELSE "3600"
       IN  /\ inv.result.kind = "response" /\ inv.result.status = "302"
           /\ inv.result.location = (IF C10_OriginalUri.def THEN C10_OriginalUri.s ELSE <<"/">>)
           /\ Len(sc) = 4
           /\ SetCookieName(sc[1]) = COOKIE_idToken /\ SetCookieMaxAge(sc[1]) = age
           /\ SetCookieName(sc[2]) = COOKIE_accessToken /\ SetCookieMaxAge(sc[2]) = age
           /\ SetCookieName(sc[3]) = COOKIE_refreshToken /\ SetCookieMaxAge(sc[3]) = "604800"
           /\ SetCookieName(sc[4]) = COOKIE_pkce /\ SetCookieVal(sc[4]) = <<>> /\ SetCookieMaxAge(sc[4]) = "0"

C10_Witness ==
    /\ InvIsCallback /\ inv.tokenCalls = 1
    /\ inv.reply.kind = "response" /\ inv.reply.status = 200 /\ inv.reply.body = "object"
    /\ ~inv.reply.hasExpiresIn
    /\ ~C10_OriginalUri.def
    /\ inv.result.location = <<"/">>
    /\ Len(inv.result.setCookie) = 4

(***************************************************************************)
(* C11.  No session on a Callback error.                                   *)
(***************************************************************************)
\* the last invocation is a Callback invocation that ended in an error response
C11_IsErrorResponse ==
    /\ inv.handler = "callback"
    /\ inv.result.kind = "response"
    /\ inv.result.location = <<>>

\* C11: every error response of the Callback has status 400 and no Set-Cookie header,
\* and unless its error is token_exchange_failed the invocation made no request to
\* the token endpoint.
C11_NoSessionOnError ==
    C11_IsErrorResponse =>
        /\ inv.result.status = "400"
        /\ inv.result.setCookie = <<>>
        /\ inv.result.error # <<"token_exchange_failed">> => inv.tokenCalls = 0
        /\ inv.tokenCalls = 1 => inv.result.error = <<"token_exchange_failed">>

\* the tampered state of the spec's scenario: 400 page, no token request, no cookie
C11_Witness ==
    /\ InvIsCallback /\ InvStateDiffers /\ InvQueryState.def
    /\ C11_IsErrorResponse
    /\ ErrorPage(<<"state_mismatch">>)
    /\ inv.tokenCalls = 0
    /\ inv.result.setCookie = <<>>

(***************************************************************************)
(* C12.  The Callback never throws.                                        *)
(***************************************************************************)
\* C12: whatever the event, the query string and the cookie header, a Callback
\* invocation returns the 302 success response or a 400 error response; it never throws.
C12_CallbackNeverThrows ==
    inv.handler = "callback" =>
        /\ inv.result.kind = "response"
        /\ inv.result.status \in {"302", "400"}

(***************************************************************************)
(* C13.  Request Gate, Sign-In and Sign-Out never fail.                    *)
(***************************************************************************)
\* C13: whatever the URI, the query string and the cookie header, Request Gate returns
\* the request or a 302, and Sign-In and Sign-Out return a 302; none of them throws or
\* returns an error response.
C13_NeverFail ==
    /\ InvIsGate => (Allowed \/ (inv.result.kind = "response" /\ inv.result.status = "302"))
    /\ inv.handler \in {"signin", "signout"} =>
           (inv.result.kind = "response" /\ inv.result.status = "302")

(***************************************************************************)
(* C14.  One token request, no retry.                                      *)
(***************************************************************************)
\* C14: a Callback invocation makes at most one request to the token endpoint; a reply
\* with a status other than 200 or a transport error ends it with the 400
\* token_exchange_failed error carrying the underlying message, and the success
\* response is returned only after a 200 reply.
C14_SingleAttempt ==
    inv.handler = "callback" =>
        /\ inv.tokenCalls \in {0, 1}
        /\ (inv.tokenCalls = 1 /\ inv.reply.kind = "response" /\ inv.reply.status # 200) =>
               /\ ErrorPage(<<"token_exchange_failed">>)
               /\ inv.result.description = <<"Token exchange failed: ", ToString(inv.reply.status)>>
        /\ (inv.tokenCalls = 1 /\ inv.reply.kind = "neterr") =>
               /\ ErrorPage(<<"token_exchange_failed">>)
               /\ inv.result.description # <<>>
        /\ (inv.result.kind = "response" /\ inv.result.status = "302") =>
               /\ inv.tokenCalls = 1
               /\ inv.reply.kind = "response" /\ inv.reply.status = 200

C14_Witness ==
    /\ InvIsCallback /\ inv.tokenCalls = 1
    /\ inv.reply.kind = "response" /\ inv.reply.status = 400
    /\ ErrorPage(<<"token_exchange_failed">>)
    /\ inv.result.description = <<"Token exchange failed: ", "400">>

(***************************************************************************)
(* C15.  PKCE round trip.                                                  *)
(***************************************************************************)
\* the last invocation answered with the redirect to /oauth2/authorize
C15_IsAuthRedirect ==
    /\ inv.handler \in {"gate", "signin"}
    /\ inv.result.kind = "response"
    /\ StartsWith(inv.result.location, AuthorizeEndpoint)

\* the codeVerifier stored in the pkce-state cookie of the response
C15_StoredVerifier ==
    JsonGet(JSONparse(decodeURIComponent(SetCookieVal(inv.result.setCookie[1]))), "codeVerifier")

\* the code_challenge parameter of the authorize URL
C15_Challenge == QsParam(LocationQuery(inv.result.location), "code_challenge")

\* C15: in every redirect to /oauth2/authorize made by Request Gate or Sign-In, the
\* code_challenge of the URL is base64url(sha256(codeVerifier)) for the codeVerifier in
\* the pkce-state cookie of the same response, and the codeVerifier is nowhere in the URL.
C15_PkceRoundTrip ==
    C15_IsAuthRedirect =>
        /\ Len(inv.result.setCookie) = 1
        /\ SetCookieName(inv.result.setCookie[1]) = COOKIE_pkce
        /\ C15_StoredVerifier.def /\ Len(C15_StoredVerifier.s) = 1
        /\ C15_Challenge.def /\ ~C15_Challenge.multi
        /\ C15_Challenge.s = <<S256(C15_StoredVerifier.s[1])>>
        /\ ~Includes(inv.result.location, C15_StoredVerifier.s[1])
        /\ QsParam(LocationQuery(inv.result.location), "code_challenge_method").s = <<"S256">>

C15_Witness ==
    /\ inv.handler = "signin"
    /\ C15_IsAuthRedirect
    /\ C15_StoredVerifier = Str(<<"v1">>)
    /\ C15_Challenge.s = <<S256("v1")>>

(***************************************************************************)
(* C16.  Sign-Out clears the cookies.                                      *)
(***************************************************************************)
\* C16: for every request, the response of Sign-Out is a 302 with exactly five
\* Set-Cookie headers, each with an empty value and Max-Age=0.
C16_FiveClearingCookies ==
    inv.handler = "signout" =>
        /\ inv.result.kind = "response" /\ inv.result.status = "302"
        /\ Len(inv.result.setCookie) = 5
        /\ \A k \in 1..Len(inv.result.setCookie) :
               /\ SetCookieVal(inv.result.setCookie[k]) = <<>>
               /\ SetCookieMaxAge(inv.result.setCookie[k]) = "0"

(***************************************************************************)
(* C17.  originalUri is the request the user made.                         *)
(***************************************************************************)
\* the originalUri in the pkce-state cookie of the response
C17_StoredOriginalUri ==
    JsonGet(JSONparse(decodeURIComponent(SetCookieVal(inv.result.setCookie[1]))), "originalUri")

\* the request's path and query string with the cache-busting parameter appended
C17_PathAndQuery ==
    InvRequest.uri
      \o (IF InvRequest.querystring = <<>> THEN <<"?">> ELSE <<"?">> \o InvRequest.querystring \o <<"&">>)
      \o <<"_t", "=", ToString(DateNow(inv.at))>>

\* C17: the originalUri Request Gate stores is the path of the request before the
\* rewrite, followed by the request's query string and the cache-busting parameter.
C17_OriginalUriRestoresRequest ==
    (InvIsGate /\ RedirectedToProvider) =>
        /\ C17_StoredOriginalUri.def
        /\ C17_StoredOriginalUri.s = C17_PathAndQuery

(***************************************************************************)
(* C18.  Sign-In always re-initiates.                                      *)
(***************************************************************************)
\* the redirect parameter of the request's query string
C18_Redirect == QsParam(InvRequest.querystring, "redirect")

\* the originalUri in the pkce-state cookie of the response
C18_StoredOriginalUri ==
    JsonGet(JSONparse(decodeURIComponent(SetCookieVal(inv.result.setCookie[1]))), "originalUri")

\* C18: every /signin request, with or without a valid id-token cookie, is answered by
\* the 302 to /oauth2/authorize with a pkce-state cookie of Max-Age=600 whose
\* originalUri is the redirect query parameter when it is present and not empty, and
\* "/" otherwise.  (Stated on the query strings that decode and give redirect once.)
C18_SignInReinitiates ==
    (inv.handler = "signin" /\ ~parseQueryString(InvRequest.querystring).threw /\ ~C18_Redirect.multi) =>
        /\ RedirectedToProvider
        /\ C18_StoredOriginalUri.def
        /\ C18_StoredOriginalUri.s = IF C18_Redirect.def /\ C18_Redirect.s # <<>>
                                     THEN C18_Redirect.s ELSE <<"/">>

(***************************************************************************)
(* C19.  The form of every Set-Cookie header.                              *)
(***************************************************************************)
\* the Max-Age values a handler can emit on the inputs of the model
C19_MaxAges == {"0", "300", "600", "3600", "604800"}

\* name=value; Path=/; Secure; HttpOnly; SameSite=Lax; Max-Age=<seconds>
C19_HasForm(sc) ==
    LET eq   == IndexOf(sc, "=")
        semi == IndexOf(sc, ";")
    IN  /\ eq > 1 /\ semi > eq
        /\ SubSeq(sc, semi, Len(sc) - 1) =
             <<";", " ", "Path", "=", "/", ";", " ", "Secure", ";", " ", "HttpOnly",
               ";", " ", "SameSite", "=", "Lax", ";", " ", "Max-Age", "=">>
        /\ sc[Len(sc)] \in C19_MaxAges

\* the header clears its cookie: no value or Max-Age=0
C19_Clears(sc) == SetCookieVal(sc) = <<>> \/ SetCookieMaxAge(sc) = "0"

\* C19: every Set-Cookie header a handler emits is name=value followed by Path=/,
\* Secure, HttpOnly, SameSite=Lax and Max-Age in that order, and a header that clears
\* a cookie has both an empty value and Max-Age=0.
C19_SetCookieContract ==
    \A k \in 1..Len(inv.result.setCookie) :
        /\ C19_HasForm(inv.result.setCookie[k])
        /\ C19_Clears(inv.result.setCookie[k]) =>
              /\ SetCookieVal(inv.result.setCookie[k]) = <<>>
              /\ SetCookieMaxAge(inv.result.setCookie[k]) = "0"

C19_Witness ==
    /\ inv.handler = "callback"
    /\ Len(inv.result.setCookie) = 4
    /\ \A k \in 1..4 : C19_HasForm(inv.result.setCookie[k])
    /\ SetCookieMaxAge(inv.result.setCookie[1]) = "300"
    /\ C19_Clears(inv.result.setCookie[4])
    /\ ~C19_Clears(inv.result.setCookie[1])

(***************************************************************************)
(* C20.  Only the exact public paths skip authentication.                  *)
(***************************************************************************)
\* the URI begins with a public path without being one
C20_BeginsWithPublicPath ==
    \E path \in publicPaths : StartsWith(InvRequest.uri, path) /\ InvRequest.uri # path

\* C20: a request whose URI only begins with a public path (/signin-admin,
\* /callbackdata/report) and that carries no valid id-token is redirected to the
\* provider; a request is returned without a session check only when its URI is one of
\* the public paths.
C20_OnlyExactPaths ==
    /\ (InvIsGate /\ C20_BeginsWithPublicPath /\ ~SpecValidSession
          /\ ~parseCookies(InvCookieHeader).threw) => RedirectedToProvider
    /\ (InvIsGate /\ Allowed /\ ~InvIdToken.def) => OnAllowList(InvRequest.uri)

(***************************************************************************)
(* C21.  The token exchange needs a state that is present and matches.     *)
(***************************************************************************)
\* C21: a Callback invocation makes its token request only when the query string has
\* a state parameter and the pkce-state cookie's JSON has a state field equal to it; an
\* invocation with neither a state parameter nor a stored state field makes no token
\* request.
C21_ExchangeNeedsState ==
    (InvIsCallback /\ inv.tokenCalls = 1) =>
        /\ InvQueryState.def /\ ~InvQueryState.multi
        /\ InvStoredState.def
        /\ InvQueryState.s = InvStoredState.s

(***************************************************************************)
(* C22.  Two authentication attempts of one browser.                       *)
(***************************************************************************)
\* the browser was redirected twice and then made its first /callback request, with a
\* code and the state of one of the two redirects
C22_FirstCallbackOfTwo ==
    /\ InvIsCallback
    /\ Cardinality(authSeen) = 2
    /\ requests = 3
    /\ Truthy(QsParam(InvRequest.querystring, "code"))
    /\ InvQueryState.def /\ InvQueryState.s[1] \in authSeen

\* C22: when the browser has taken the cookies of two authentication redirects before
\* any callback ran, the callback of either transaction, arriving with that
\* transaction's state and a code, passes the state check: it is not rejected for its
\* state or for its pkce-state cookie.
C22_NoInterference ==
    C22_FirstCallbackOfTwo =>
        /\ ~ErrorPage(<<"state_mismatch">>)
        /\ ~ErrorPage(<<"missing_pkce">>)
        /\ ~ErrorPage(<<"invalid_pkce">>)

(***************************************************************************)
(* C23.  The redirect after authentication stays on the site.              *)
(***************************************************************************)
\* the last invocation is the Callback serving the return from a redirect of Request
\* Gate or Sign-In, and it answered with the success response
C23_SuccessAfterRedirect ==
    /\ InvIsCallback
    /\ prev.handler \in {"gate", "signin"}
    /\ inv.result.kind = "response" /\ inv.result.status = "302"

\* C23: after a redirect of Request Gate or of Sign-In (whatever its redirect
\* parameter) and a successful Callback, the Location of the Callback's 302 is a path
\* on the site: it begins with "/" and is not a URL with a scheme or a host.
C23_RedirectStaysOnSite ==
    C23_SuccessAfterRedirect =>
        /\ StartsWith(inv.result.location, <<"/">>)
        /\ ~StartsWith(inv.result.location, <<"/", "/">>)
        /\ ~Includes(inv.result.location, ":")

(***************************************************************************)
(* C24.  The order of the Callback's checks.                               *)
(***************************************************************************)
\* the pkce-state cookie of the request and its JSON value
C24_PkceCookie == Lookup(parseCookies(InvCookieHeader).map, COOKIE_pkce)
C24_PkceJson == JSONparse(C24_PkceCookie.s)

\* the query's state and the stored state are not the same value
C24_StateMismatch ==
    \/ InvQueryState.multi
    \/ InvQueryState.def # JsonGet(C24_PkceJson, "state").def
    \/ InvQueryState.s # JsonGet(C24_PkceJson, "state").s

\* the error of the first check that fails, in the order of section 4.3; <<>> when
\* every check passes
C24_FirstFailing ==
    IF inv.event.shape = "no-records" THEN <<"invalid_event">>
    ELSE IF inv.event.shape = "no-cf" THEN <<"invalid_cf_record">>
    ELSE IF Truthy(QsParam(InvRequest.querystring, "error")) THEN QsParam(InvRequest.querystring, "error").s
    ELSE IF ~Truthy(QsParam(InvRequest.querystring, "code")) THEN <<"missing_code">>
    ELSE IF ~(C24_PkceCookie.def /\ C24_PkceCookie.s # <<>>) THEN <<"missing_pkce">>
    ELSE IF ~C24_PkceJson.ok THEN <<"invalid_pkce">>
    ELSE IF C24_StateMismatch THEN <<"state_mismatch">>
    ELSE <<>>

\* C24: the outcome of a Callback invocation is decided by the first failing check in
\* the order envelope (invalid_event, invalid_cf_record), provider error, missing
\* code, missing pkce-state cookie, unparseable pkce-state JSON, state mismatch: it is
\* the 400 page of that check (for a provider error, with the provider's code and
\* description) without a token request, and the token request is made exactly when
\* no check fails.
C24_ChecksInOrder ==
    inv.handler = "callback" =>
        /\ C24_FirstFailing # <<>> =>
              /\ ErrorPage(C24_FirstFailing)
              /\ inv.tokenCalls = 0
        /\ (inv.event.shape = "ok" /\ Truthy(QsParam(InvRequest.querystring, "error"))) =>
              inv.result.description = QsParam(InvRequest.querystring, "error_description").s
        /\ C24_FirstFailing = <<>> => inv.tokenCalls = 1

(***************************************************************************)
(* C25.  A session is established only from real tokens.                   *)
(***************************************************************************)
\* the reply of the token endpoint is a 200 with a JSON object that has id_token,
\* access_token and refresh_token
C25_RealTokens ==
    /\ inv.reply.kind = "response" /\ inv.reply.status = 200 /\ inv.reply.body = "object"
    /\ inv.reply.id_token.def /\ inv.reply.access_token.def /\ inv.reply.refresh_token.def

\* C25: the Callback returns the 302 success response with session cookies only when
\* the token endpoint replied 200 with a JSON body that has id_token, access_token and
\* refresh_token; no response sets the id-token cookie to the text "undefined".
C25_SessionOnlyFromTokens ==
    inv.handler = "callback" =>
        /\ (inv.result.kind = "response" /\ inv.result.status = "302") => C25_RealTokens
        /\ \A k \in 1..Len(inv.result.setCookie) :
               SetCookieName(inv.result.setCookie[k]) = COOKIE_idToken =>
                   SetCookieVal(inv.result.setCookie[k]) # <<"undefined">>

(***************************************************************************)
(* C26.  State and nonce are bound within one redirect.                    *)
(***************************************************************************)
\* an invocation of Request Gate or Sign-In that answered with the redirect to
\* /oauth2/authorize
C26_IsAuthRedirect(i) ==
    /\ i.handler \in {"gate", "signin"}
    /\ i.result.kind = "response"
    /\ StartsWith(i.result.location, AuthorizeEndpoint)

\* the transaction the Callback reads from the pkce-state cookie of a response when the
\* browser returns it
C26_Stored(i) ==
    JSONparse(Lookup(parseCookies(SetCookiePair(i.result.setCookie[1])).map, COOKIE_pkce).s)

\* a parameter of the authorize URL of a response
C26_UrlParam(i, key) == QsParam(LocationQuery(i.result.location), key)

\* state and nonce of the URL are those of the cookie, and the echoed state passes
\* the Callback's comparison with the stored state
C26_Bound(i) ==
    /\ C26_UrlParam(i, "state").def /\ ~C26_UrlParam(i, "state").multi
    /\ C26_UrlParam(i, "nonce").def /\ ~C26_UrlParam(i, "nonce").multi
    /\ JsonGet(C26_Stored(i), "state") = Str(C26_UrlParam(i, "state").s)
    /\ JsonGet(C26_Stored(i), "nonce") = Str(C26_UrlParam(i, "nonce").s)
    /\ ~StateDiffers(C26_UrlParam(i, "state"), JsonGet(C26_Stored(i), "state"))

\* C26: in every redirect to /oauth2/authorize made by Request Gate or Sign-In, the
\* state and nonce parameters of the URL equal the state and nonce fields of the
\* pkce-state cookie of the same response; when the provider echoes that state and the
\* browser returns that cookie, the Callback's state comparison does not reject the
\* return, and a Callback that reaches the comparison goes on to the token request.
C26_StateNonceBound ==
    /\ C26_IsAuthRedirect(inv) => C26_Bound(inv)
    /\ (inv.handler = "callback" /\ C26_IsAuthRedirect(prev)) =>
           /\ InvQueryState = C26_UrlParam(prev, "state")
           /\ ~ErrorPage(<<"state_mismatch">>)
           /\ InvReachesStateCheck => inv.tokenCalls = 1

\* the return from a Request Gate redirect passed the comparison
C26_Witness ==
    /\ inv.handler = "callback"
    /\ C26_IsAuthRedirect(prev) /\ prev.handler = "gate"
    /\ C26_Bound(prev)
    /\ InvQueryState.s = <<"s1">>
    /\ InvStoredState.s = <<"s1">>
    /\ inv.tokenCalls = 1

(***************************************************************************)
(* C27.  The PKCE transaction survives the cookie round trip.              *)
(***************************************************************************)
\* the post-authentication target the handler of an invocation wrote: Request Gate the
\* request's uri with the cache-busting parameter, Sign-In the redirect parameter or "/"
C27_WrittenOriginalUri(i) ==
    IF i.handler = "gate" THEN CacheBustedUri(i.event.request.uri, i.at)
    ELSE RedirectParam(parseQueryString(i.event.request.querystring), <<"/">>)

\* the transaction the Callback reads from the pkce-state cookie of a response: cookie
\* parsing, then JSON decoding
C27_ReadBack(i) ==
    JSONparse(Lookup(parseCookies(SetCookiePair(i.result.setCookie[1])).map, COOKIE_pkce).s)

C27_SameTransaction(i) ==
    /\ C27_ReadBack(i).ok /\ C27_ReadBack(i).kind = "object"
    /\ Len(C27_ReadBack(i).members) = 4
    /\ JsonGet(C27_ReadBack(i), "codeVerifier") = Str(<<Rnd(requests + 1).codeVerifier>>)
    /\ JsonGet(C27_ReadBack(i), "state") = Str(<<Rnd(requests + 1).state>>)
    /\ JsonGet(C27_ReadBack(i), "nonce") = Str(<<Rnd(requests + 1).nonce>>)
    /\ JsonGet(C27_ReadBack(i), "originalUri") = Str(C27_WrittenOriginalUri(i))

\* C27: for every transaction Request Gate or Sign-In writes into the pkce-state
\* cookie, the Callback's cookie parsing followed by JSON decoding of the returned
\* cookie gives the codeVerifier, state, nonce and originalUri that were written; the
\* Callback that serves the return posts that codeVerifier to the token endpoint and,
\* on success, redirects to that originalUri.
C27_CookieRoundTrip ==
    /\ C26_IsAuthRedirect(inv) => C27_SameTransaction(inv)
    /\ (inv.handler = "callback" /\ C26_IsAuthRedirect(prev) /\ inv.tokenCalls = 1) =>
           /\ tokenReqs = <<TokenRequest(<<"c1">>, Str(<<Rnd(requests + 1).codeVerifier>>))>>
           /\ (inv.result.status = "302" => inv.result.location = C27_WrittenOriginalUri(prev))

\* a Sign-In target with ";", " ", "%" and "&" came back whole
C27_Witness ==
    /\ inv.handler = "callback" /\ prev.handler = "signin"
    /\ C27_SameTransaction(prev)
    /\ \A ch \in {";", " ", "%", "&"} : Includes(C27_WrittenOriginalUri(prev), ch)
    /\ inv.result.status = "302"
    /\ inv.result.location = C27_WrittenOriginalUri(prev)

(***************************************************************************)
(* C28.  Sign-out ends the session.                                        *)
(***************************************************************************)
\* the cookies the other handlers set, under their configured names
C28_SessionCookies == {COOKIE_idToken, COOKIE_accessToken, COOKIE_refreshToken, COOKIE_pkce}

\* the response clears the cookie of this name
C28_ClearsCookie(result, name) ==
    \E k \in 1..Len(result.setCookie) :
        /\ SetCookieName(result.setCookie[k]) = name
        /\ SetCookieVal(result.setCookie[k]) = <<>>
        /\ SetCookieMaxAge(result.setCookie[k]) = "0"

\* C28: the response of Sign-Out clears the id-token, access-token, refresh-token and
\* pkce-state cookies; once the browser has applied it, it holds none of them, and its
\* next request to a URI that is not on the allow-list is answered by Request Gate with
\* the redirect to the provider, never allowed through.
C28_SignOutEndsSession ==
    /\ (inv.handler = "signout" /\ inv.result.kind = "response") =>
           \A name \in C28_SessionCookies : C28_ClearsCookie(inv.result, name)
    /\ (InvIsGate /\ prev.handler = "signout") =>
           /\ \A k \in 1..Len(jar) : jar[k][1] \notin C28_SessionCookies
           /\ ~OnAllowList(InvRequest.uri) => RedirectedToProvider

(***************************************************************************)
(* C29.  Cookie-header parsing.                                            *)
(***************************************************************************)
\* section 4.1 step 3 on the segments of a header: each segment is split on its first
\* "=", the trimmed name maps to the URL-decoded remainder; a segment without "=", with
\* an empty name, an empty value or a value that does not decode is skipped
RECURSIVE C29_ParseSegments(_)
C29_ParseSegments(parts) ==
    IF parts = <<>> THEN <<>>
    ELSE LET seg   == Trim(Head(parts))
             eq    == IndexOf(seg, "=")
             name  == Trim(SubSeq(seg, 1, eq - 1))
             value == SubSeq(seg, eq + 1, Len(seg))
         IN  (IF eq > 0 /\ name # <<>> /\ value # <<>> /\ ~DecodeThrows(value)
              THEN << <<name, decodeURIComponent(value)>> >> ELSE <<>>)
             \o C29_ParseSegments(Tail(parts))

C29_Parsed(header) == IF header = <<>> THEN <<>> ELSE C29_ParseSegments(Split(header, ";"))

\* the invocation parsed its cookie header
C29_ParsesCookies ==
    \/ InvIsGate /\ ~IsPublicPath(InvRequest.uri)
    \/ (InvIsCallback /\ ~Truthy(QsParam(InvRequest.querystring, "error"))
          /\ Truthy(QsParam(InvRequest.querystring, "code")))

\* C29: parseCookies splits the header on ";" and each segment on its first "=" only,
\* maps the trimmed name to the URL-decoded remainder, so that a value containing "="
\* is returned whole, and skips the segments with no "=", an empty name or an empty
\* value without affecting the other cookies.
C29_ParseCookies ==
    C29_ParsesCookies =>
        /\ ~parseCookies(InvCookieHeader).threw
        /\ parseCookies(InvCookieHeader).map = C29_Parsed(InvCookieHeader)

(***************************************************************************)
(* C30.  Request Gate and Sign-In begin authentication identically.        *)
(***************************************************************************)
\* the post-authentication target in the pkce-state cookie of the response
C30_Target ==
    JsonGet(JSONparse(decodeURIComponent(SetCookieVal(inv.result.setCookie[1]))), "originalUri").s

\* the response of Sign-In for the same target and the same random values
C30_SignInResponse ==
    SignInHandler(Req(<<"/", "signin">>, <<"redirect", "=">> \o encodeURIComponent(C30_Target), FALSE, <<>>),
                  Rnd(requests + 1))

\* the names of the parameters of an authorize URL, in order
C30_ParamNames(location) ==
    LET parts == Split(LocationQuery(location), "&")
    IN  [k \in 1..Len(parts) |-> Split(parts[k], "=")[1]]

\* the eight parameters of section 4.2, in order
C30_EightParams ==
    << <<"response_type">>, <<"client_id">>, <<"redirect_uri">>, <<"scope">>, <<"state">>,
       <<"nonce">>, <<"code_challenge">>, <<"code_challenge_method">> >>

\* C30 as stated: for the same post-authentication target and the same random values,
\* the redirect of Request Gate and the redirect of Sign-In have the same pkce-state
\* cookie and the same authorize URL, whose parameters are exactly response_type,
\* client_id, redirect_uri, scope, state, nonce, code_challenge and
\* code_challenge_method.
C30_SameBeginning ==
    (InvIsGate /\ RedirectedToProvider) =>
        /\ C30_SignInResponse.kind = "response"
        /\ inv.result.setCookie = C30_SignInResponse.setCookie
        /\ inv.result.location = C30_SignInResponse.location
        /\ C30_ParamNames(inv.result.location) = C30_EightParams

\* C30 amended: for the same post-authentication target and the same random values,
\* the two redirects have the same pkce-state cookie, and the same eight parameters
\* with the same values in their authorize URLs; Sign-In's URL has no other parameter,
\* Request Gate's URL ends with one more, the timestamp _t.
C30_SameExceptTimestamp ==
    (InvIsGate /\ RedirectedToProvider) =>
        /\ C30_SignInResponse.kind = "response"
        /\ C30_SignInResponse.status = "302"
        /\ inv.result.setCookie = C30_SignInResponse.setCookie
        /\ C30_ParamNames(C30_SignInResponse.location) = C30_EightParams
        /\ inv.result.location =
             C30_SignInResponse.location \o <<"&", "_t", "=", ToString(DateNow(inv.at))>>

C30_Witness ==
    /\ InvIsGate /\ RedirectedToProvider
    /\ InvRequest.uri = <<"/", "dashboard">>
    /\ C30_Target = <<"/", "dashboard", "?", "_t", "=", ToString(DateNow(inv.at))>>
    /\ inv.result.setCookie = C30_SignInResponse.setCookie
    /\ C30_ParamNames(inv.result.location) = Append(C30_EightParams, <<"_t">>)

====
